---- MODULE Spec2Model ----
(***************************************************************************)
(* Model of aioimap.receiver.Receiver (src/aioimap/receiver.py) together   *)
(* with the administrative surface of src/aioimap/api.py.                  *)
(*                                                                         *)
(* Tasks: "run" (Receiver.run), "wfnm" (the wait_for_new_message task run  *)
(* creates), "admin" (the /change-mailbox request handler), "reconnect"    *)
(* (the task conn_lost_cb creates).  handle_exit is a synchronous call.    *)
(* A step of a task runs from one suspension point (an await that really   *)
(* waits: a transport command, a contended lock, a sleep) to the next.     *)
(* The aioimaplib client is the environment: each command is issued in one *)
(* step and answered in a later one with a nondeterministic outcome.       *)
(***************************************************************************)
EXTENDS Integers, Sequences, FiniteSets, TLC

\* ---------------------------------------------------------------- bounds
MaxIds   == 2       \* longest UNSEEN search result explored
MaxQueue == 1       \* server pushes queued in protocol.idle_queue

\* ------------------------------------------------------------- constants
RECEIVER_STOPPED == "RECEIVER_STOPPED"

\* mailbox names are sequences of characters
INBOX == <<"I">>
AdminMailboxes == { <<>>, <<"M", " ", "B">> }

\* the attribute current_mailbox does not exist before the first successful
\* change_mailbox; no accepted name is empty
NoMailbox == << >>

\* aioimaplib.Commands.get('LOGOUT').valid_states
LogoutValidStates == {"NONAUTH", "AUTH", "SELECTED", "LOGOUT"}

\* the results search_unseen can return: the IDs 1..n in server order
SearchResults == { [i \in 1..n |-> i] : n \in 0..MaxIds }

\* what wait_server_push can deliver: the idle timeout marker
\* (STOP_WAIT_SERVER_PUSH, a string), a push without EXISTS, a push with it
PushKinds == {"timeout", "push", "exists"}

\* api.py lines 7-12: the HTTP status for an exception of type t
translate_py_exc_to_http(t) == IF t = "ValueError" THEN 422 ELSE 500

\* api.py lines 90-95: the answer of /change-mailbox: status 200, or the
\* status and detail of the HTTPException made from the exception
NoResponse == [status |-> 0, detail |-> ""]
OkResponse == [status |-> 200, detail |-> "OK"]
ErrResponse(t, msg) == [status |-> translate_py_exc_to_http(t), detail |-> msg]

\* how a call of the message handler can end
HandlerOutcomes == {"return", "raise"}

VARIABLES
    should_exit,          \* Receiver.should_exit (asyncio.Event)
    exit_event,           \* Receiver.exit_event (asyncio.Event)
    imap_client_lock,     \* Receiver.imap_client_lock: holder and FIFO waiters
    task_wfnm,            \* Receiver._task_wfnm: "none" (absent or None) or "task"
    current_mailbox,      \* Receiver.current_mailbox (NoMailbox until assigned)
    imap_client,          \* Receiver.imap_client: the transport handle
    cancelledIsException, \* build: CancelledError derives from Exception (Python < 3.8)
    runpc,                \* position of Receiver.run
    wfnmpc,               \* position of the wait_for_new_message task
    wcancel,              \* Task.cancel() was called on the live watch task
    wresult,              \* how the watch task ended
    wids,                 \* IDs the drain loop still has to fetch
    wmsg,                 \* local msg of wait_for_new_message
    wlocked,              \* the last drain ran inside the lock
    idle_set,             \* Receiver._idle exists and is not None
    adminpc,              \* position of the /change-mailbox handler
    adminmb,              \* its (quoted) mailbox argument
    recpc,                \* position of the reconnect task
    adminResponse,        \* the last answer of /change-mailbox
    \* ---- history variables (observations, never read by the program)
    stopRequested,        \* handle_exit has been called
    searched,             \* IDs returned by the search of the drain in progress
    shortIds,             \* IDs of that drain whose fetch had <= 1 line
    handled,              \* IDs the handler was invoked with in that drain
    raised,               \* IDs of that drain whose handler invocation raised
    switched,             \* an admin switch succeeded in the idle loop, no search since
    lossPath,             \* connection lost mid-idle, no new drain yet
    buildFatal,           \* reconnect hit a non-OSError constructing the handle
    selectFailed,         \* the select of wait_for_new_message was refused
    replaced,             \* the current_mailbox the last select of the loop overwrote
    stopNotice            \* what run told the handler since the watch task was created

progvars == << should_exit, exit_event, imap_client_lock, task_wfnm,
               current_mailbox, imap_client, cancelledIsException,
               runpc, wfnmpc, wcancel, wresult, wids, wmsg, wlocked, idle_set,
               adminpc, adminmb, recpc, adminResponse >>
histvars == << stopRequested, searched, shortIds, handled, raised,
               switched, lossPath, buildFatal, selectFailed, replaced >>
vars == << progvars, histvars, stopNotice >>

\* ------------------------------------------------------------ asyncio.Lock
\* Lock.acquire: taken at once when free, else the caller joins the FIFO
Acquire(l, t) ==
    IF l.holder = "none"
    THEN [holder |-> t, waiters |-> <<>>]
    ELSE [l EXCEPT !.waiters = Append(@, t)]

\* Lock.release: the first waiter is woken and owns the lock next
Release(l) ==
    IF l.waiters = <<>>
    THEN [holder |-> "none", waiters |-> <<>>]
    ELSE [holder |-> Head(l.waiters), waiters |-> Tail(l.waiters)]

\* Abandon with the lock kept by a task that ends
AbandonKeep(l, t) == l

\* a task that ends leaves the lock: released if it holds it (the exit of
\* `async with`), dequeued if it waits for it
Abandon(l, t) ==
    IF l.holder = t THEN Release(l)
    ELSE [l EXCEPT !.waiters = SelectSeq(@, LAMBDA x : x # t)]

\* ------------------------------------------------------------ transport
\* aioimaplib.IMAP4_SSL(host=...): a fresh handle.
\* idle: "no", "pending" (IDLE outstanding) or "ending" (DONE sent, not yet
\* acknowledged); queue: protocol.idle_queue; lost: connection_lost was reported
NewClient == [state |-> "STARTED", idle |-> "no", queue |-> <<>>, lost |-> FALSE]

\* the attribute imap_client does not exist before run creates it
NoClient == [state |-> "ABSENT", idle |-> "no", queue |-> <<>>, lost |-> FALSE]

\* imap_client.has_pending_idle()
has_pending_idle(c) == c.idle # "no"

\* change_mailbox line 135: quote a name that contains a space
Quote(mb) ==
    IF \E i \in 1..Len(mb) : mb[i] = " "
    THEN <<"\"">> \o mb \o <<"\"">>
    ELSE mb

\* ValidMailbox with the argument check dropped
ValidMailboxAny(mb) == TRUE

\* change_mailbox lines 125-131: the argument check
ValidMailbox(mb) == Len(mb) > 0

\* TryHandler without the except clause: what the handler raises leaves
\* wait_for_new_message
TryHandlerNoExcept(h) == IF h = "raise" THEN "propagated" ELSE "returned"

\* lines 181-184 / 227-230: the try statement around the handler call; its
\* bare except logs whatever the handler raises
TryHandler(h) == IF h = "raise" THEN "logged" ELSE "returned"

\* the observations of one drain are dropped
HistReset ==
    /\ searched' = <<>>
    /\ shortIds' = {}
    /\ handled' = <<>>

\* ------------------------------------------------------------------ Init
\* the state after Receiver() (lines 22-25); run is scheduled, not started
Init ==
    /\ should_exit = FALSE
    /\ exit_event = FALSE
    /\ imap_client_lock = [holder |-> "none", waiters |-> <<>>]
    /\ task_wfnm = "none"
    /\ current_mailbox = NoMailbox
    /\ imap_client = NoClient
    /\ cancelledIsException \in BOOLEAN
    /\ runpc = "not_started"
    /\ wfnmpc = "none"
    /\ wcancel = FALSE
    /\ wresult = "none"
    /\ wids = <<>>
    /\ wmsg = "none"
    /\ wlocked = FALSE
    /\ idle_set = FALSE
    /\ adminpc = "none"
    /\ adminmb = <<>>
    /\ recpc = "none"
    /\ adminResponse = NoResponse
    /\ stopRequested = FALSE
    /\ searched = <<>>
    /\ shortIds = {}
    /\ handled = <<>>
    /\ raised = {}
    /\ switched = FALSE
    /\ lossPath = FALSE
    /\ buildFatal = FALSE
    /\ selectFailed = FALSE
    /\ replaced = NoMailbox
    /\ stopNotice = "none"

\* ============================================================ Receiver.run
\* the variables no step of run writes
RunFrame == << current_mailbox, cancelledIsException, wcancel, wids, wmsg,
               wlocked, idle_set, adminpc, adminmb, recpc, adminResponse,
               histvars >>

\* lines 91-97 and 59-60, 103-108: the end of one iteration of the while
\* loop with lock value l and should_exit value se.  Either the loop ends
\* and exit_event is set, or login starts: it takes the lock and waits for
\* the server greeting, or queues for the lock.
RunLoopTop(l, se, ee) ==
    /\ should_exit' = se
    /\ IF se
       THEN /\ exit_event' = TRUE
            /\ runpc' = "done"
            /\ imap_client_lock' = l
       ELSE /\ exit_event' = ee
            /\ imap_client_lock' = Acquire(l, "run")
            /\ runpc' = IF Acquire(l, "run").holder = "run"
                        THEN "login_hello" ELSE "login_lockwait"

\* lines 39-60: create the client, clear both events, enter the loop
RunStart ==
    /\ runpc = "not_started"
    /\ imap_client' = NewClient
    /\ task_wfnm' = "none"
    /\ RunLoopTop(imap_client_lock, FALSE, FALSE)
    /\ UNCHANGED << RunFrame, stopNotice, wfnmpc, wresult >>

\* line 105: login obtains the lock it queued for
LoginLockGranted ==
    /\ runpc = "login_lockwait"
    /\ imap_client_lock.holder = "run"
    /\ runpc' = "login_hello"
    /\ UNCHANGED << RunFrame, stopNotice, should_exit, exit_event, imap_client_lock,
                    task_wfnm, imap_client, wfnmpc, wresult >>

\* line 108: wait_hello_from_server returns (then line 109 sends LOGIN) or
\* times out (lines 115-117: login returns False, the loop iterates)
HelloReply ==
    /\ runpc = "login_hello"
    /\ \/ /\ ~imap_client.lost
          /\ imap_client.state \in {"STARTED", "NONAUTH"}
          /\ imap_client' = [imap_client EXCEPT !.state = "NONAUTH"]
          /\ runpc' = "login_cmd"
          /\ UNCHANGED << should_exit, exit_event, imap_client_lock >>
       \/ /\ RunLoopTop(Release(imap_client_lock), should_exit, exit_event)
          /\ UNCHANGED imap_client
    /\ UNCHANGED << RunFrame, stopNotice, task_wfnm, wfnmpc, wresult >>

\* lines 109-119 and 60-65: LOGIN answered.  OK: the lock is released, the
\* watch task is created and awaited.  Otherwise login returns False.
LoginReply ==
    /\ runpc = "login_cmd"
    /\ \/ /\ ~imap_client.lost
          /\ imap_client' = [imap_client EXCEPT !.state = "AUTH"]
          /\ imap_client_lock' = Release(imap_client_lock)
          /\ task_wfnm' = "task"
          /\ wfnmpc' = "created"
          /\ runpc' = "await_wfnm"
          /\ stopNotice' = "none"
          /\ UNCHANGED << should_exit, exit_event >>
       \/ /\ RunLoopTop(Release(imap_client_lock), should_exit, exit_event)
          /\ UNCHANGED << imap_client, task_wfnm, wfnmpc, stopNotice >>
    /\ UNCHANGED << RunFrame, wresult >>

\* lines 244-263 with the lock held (value l): idle_done and the wait for
\* the idle task, or LOGOUT, or nothing when the protocol state is invalid
LogoutBody(l, se) ==
    IF imap_client.state \in LogoutValidStates
    THEN /\ imap_client_lock' = l
         /\ should_exit' = se
         /\ exit_event' = exit_event
         /\ IF has_pending_idle(imap_client)
            THEN /\ imap_client' = [imap_client EXCEPT !.idle = "ending"]
                 /\ runpc' = IF idle_set THEN "logout_idle_wait"
                                         ELSE "logout_cmd"
            ELSE /\ runpc' = "logout_cmd"
                 /\ UNCHANGED imap_client
    ELSE /\ RunLoopTop(Release(l), se, exit_event)
         /\ UNCHANGED imap_client

\* lines 78-81: the try statement around callback(RECEIVER_STOPPED); its
\* bare except logs whatever the handler raises
NotifyStopped(h) == IF h = "raise" THEN "logged" ELSE "returned"

\* lines 65-89: the awaited watch task has ended.  A CancelledError that
\* `except Exception` does not catch leaves run; otherwise should_exit is
\* set for any other exception, the handler gets RECEIVER_STOPPED and
\* logout starts.
RunAwaitDone ==
    /\ runpc = "await_wfnm"
    /\ wfnmpc = "ended"
    /\ wfnmpc' = "none"
    /\ wresult' = "none"
    /\ IF wresult = "cancelled" /\ ~cancelledIsException
       THEN /\ runpc' = "dead"
            /\ UNCHANGED << should_exit, exit_event, imap_client_lock,
                            imap_client, stopNotice >>
       ELSE /\ \E h \in HandlerOutcomes :
                 NotifyStopped(h) \in {"logged", "returned"}
            /\ stopNotice' = RECEIVER_STOPPED
            /\ IF Acquire(imap_client_lock, "run").holder = "run"
               THEN LogoutBody(Acquire(imap_client_lock, "run"),
                               should_exit \/ wresult = "failed")
               ELSE /\ imap_client_lock' = Acquire(imap_client_lock, "run")
                    /\ should_exit' = (should_exit \/ wresult = "failed")
                    /\ runpc' = "logout_lockwait"
                    /\ UNCHANGED << exit_event, imap_client >>
    /\ UNCHANGED << RunFrame, task_wfnm >>

\* line 241: logout obtains the lock it queued for
LogoutLockGranted ==
    /\ runpc = "logout_lockwait"
    /\ imap_client_lock.holder = "run"
    /\ LogoutBody(imap_client_lock, should_exit)
    /\ UNCHANGED << RunFrame, stopNotice, task_wfnm, wfnmpc, wresult >>

\* lines 250-257: wait_for(self._idle, 10) returns or times out (caught),
\* then LOGOUT is sent; any other exception leaves logout (lines 86-89)
LogoutIdleReply ==
    /\ runpc = "logout_idle_wait"
    /\ imap_client' = [imap_client EXCEPT !.idle = "no"]
    /\ \/ /\ runpc' = "logout_cmd"
          /\ UNCHANGED << should_exit, exit_event, imap_client_lock >>
       \/ RunLoopTop(Release(imap_client_lock), TRUE, exit_event)
    /\ UNCHANGED << RunFrame, stopNotice, task_wfnm, wfnmpc, wresult >>

\* lines 256-260 and 86-97: LOGOUT answered OK, timed out (caught in
\* logout) or raised something else (caught in run, which sets should_exit)
LogoutReply ==
    /\ runpc = "logout_cmd"
    /\ \E out \in {"OK", "TIMEOUT", "ERR"} :
        /\ out = "OK" => ~imap_client.lost
        /\ imap_client' = IF out = "OK"
                          THEN [imap_client EXCEPT !.state = "LOGOUT",
                                                   !.idle = "no"]
                          ELSE imap_client
        /\ RunLoopTop(Release(imap_client_lock),
                      should_exit \/ out = "ERR", exit_event)
    /\ UNCHANGED << RunFrame, stopNotice, task_wfnm, wfnmpc, wresult >>

\* ==================================================== wait_for_new_message
\* the variables no step of the watch task writes
WatchFrame == << should_exit, exit_event, task_wfnm, cancelledIsException,
                 runpc, adminpc, adminmb, recpc, adminResponse,
                 stopRequested, buildFatal, stopNotice >>

\* the same with the observation every step but the select reply keeps
WatchFrameS == << WatchFrame, selectFailed, replaced >>

\* lines 196-204 with the lock held (value l) on handle c: IDLE is sent
\* unless an idle is pending or a push is queued, then the task waits for
\* a server push
WIdleEntry(l, c) ==
    /\ imap_client_lock' = l
    /\ IF ~has_pending_idle(c) /\ c.queue = <<>>
       THEN /\ imap_client' = [c EXCEPT !.idle = "pending"]
            /\ wfnmpc' = "idle_start"
       ELSE /\ imap_client' = c
            /\ wfnmpc' = "wait_push"

\* lines 186-189: the top of `while True`, taking the lock or queueing
WLoop(l, c) ==
    IF Acquire(l, "wfnm").holder = "wfnm"
    THEN WIdleEntry(Acquire(l, "wfnm"), c)
    ELSE /\ imap_client_lock' = Acquire(l, "wfnm")
         /\ imap_client' = c
         /\ wfnmpc' = "loop_lockwait"

\* line 158: search_unseen sends SEARCH (locked: from inside the lock)
WSearch(l, c, locked) ==
    /\ imap_client_lock' = l
    /\ imap_client' = c
    /\ wfnmpc' = "search"
    /\ wlocked' = locked
    /\ switched' = FALSE
    /\ lossPath' = FALSE

\* WDrainNext with a loop that ends after its first iteration: only the
\* first ID of the search is fetched
WDrainNextBreak(ids) ==
    IF ids = <<>> \/ wids # <<>>
    THEN /\ wids' = <<>>
         /\ WLoop(IF wlocked THEN Release(imap_client_lock)
                              ELSE imap_client_lock, imap_client)
    ELSE /\ wids' = ids
         /\ wfnmpc' = "fetch"
         /\ UNCHANGED << imap_client_lock, imap_client >>

\* lines 177-179 / 223-225: the for loop over the IDs still to fetch sends
\* FETCH for the next one; when none is left the lock is released (if
\* held) and the loop iterates
WDrainNext(ids) ==
    /\ wids' = ids
    /\ IF ids = <<>>
       THEN WLoop(IF wlocked THEN Release(imap_client_lock)
                             ELSE imap_client_lock, imap_client)
       ELSE /\ wfnmpc' = "fetch"
            /\ UNCHANGED << imap_client_lock, imap_client >>

\* an exception leaves wait_for_new_message: the task ends, the lock is
\* released by `async with` if the task holds it
WFail ==
    /\ wfnmpc' = "ended"
    /\ wresult' = "failed"
    /\ imap_client_lock' = Abandon(imap_client_lock, "wfnm")
    /\ wids' = <<>>
    /\ wmsg' = "none"
    /\ HistReset

\* lines 166-173, 121-141: the task starts; change_mailbox(mailbox) takes
\* the lock and sends SELECT, or queues for the lock
WfnmStart ==
    /\ wfnmpc = "created"
    /\ ~wcancel
    /\ imap_client_lock' = Acquire(imap_client_lock, "wfnm")
    /\ wfnmpc' = IF Acquire(imap_client_lock, "wfnm").holder = "wfnm"
                 THEN "select" ELSE "select_lockwait"
    /\ switched' = FALSE
    /\ UNCHANGED << WatchFrameS, current_mailbox, imap_client, wcancel,
                    wresult, wids, wmsg, wlocked, idle_set, searched,
                    shortIds, handled, raised, lossPath >>

\* lines 138-141: change_mailbox obtains the lock and sends SELECT
WfnmSelectLockGranted ==
    /\ wfnmpc = "select_lockwait"
    /\ ~wcancel
    /\ imap_client_lock.holder = "wfnm"
    /\ wfnmpc' = "select"
    /\ UNCHANGED << WatchFrameS, imap_client_lock, current_mailbox,
                    imap_client, wcancel, wresult, wids, wmsg, wlocked,
                    idle_set, searched, shortIds, handled, raised, switched,
                    lossPath >>

\* the argument of the select of lines 139-141 with the name of the
\* attribute current_mailbox (cm) in its place
WatchSelectArgCurrent(cm) == IF cm = NoMailbox THEN Quote(INBOX) ELSE cm

\* lines 64, 173, 135: the (quoted) name the watch task selects: the
\* mailbox argument of run, whatever current_mailbox (cm) holds
WatchSelectArg(cm) == Quote(INBOX)

\* lines 141-150, 177, 158: SELECT answered.  OK: the lock is released,
\* current_mailbox is set and the first search is sent, outside the lock.
\* Otherwise change_mailbox raises and the task fails.
WfnmSelectReply ==
    /\ wfnmpc = "select"
    /\ ~wcancel
    /\ \/ /\ ~imap_client.lost
          /\ current_mailbox' = WatchSelectArg(current_mailbox)
          /\ replaced' = current_mailbox
          /\ WSearch(Release(imap_client_lock),
                     [imap_client EXCEPT !.state = "SELECTED"], FALSE)
          /\ UNCHANGED << wresult, wids, wmsg, searched, shortIds, handled,
                          raised >>
          /\ UNCHANGED selectFailed
       \/ /\ WFail
          /\ raised' = {}
          /\ selectFailed' = TRUE
          /\ UNCHANGED << current_mailbox, imap_client, wlocked, switched,
                          lossPath, replaced >>
    /\ UNCHANGED << WatchFrame, wcancel, idle_set >>

\* lines 158-164, 177-179 / 223-225: SEARCH answered: OK with a list of
\* IDs, not OK (no IDs), or an exception; then the first FETCH is sent
SearchReply ==
    /\ wfnmpc = "search"
    /\ ~wcancel
    /\ \/ /\ \E ids \in SearchResults :
               /\ ids # <<>> => ~imap_client.lost
               /\ searched' = ids
               /\ WDrainNext(ids)
          /\ shortIds' = {}
          /\ handled' = <<>>
          /\ UNCHANGED << wresult, wmsg >>
       \/ /\ WFail
          /\ UNCHANGED imap_client
    /\ raised' = {}
    /\ UNCHANGED << WatchFrameS, current_mailbox, wcancel, wlocked, idle_set,
                    switched, lossPath >>

\* lines 178-184 / 224-230: FETCH answered: with a body (the handler is
\* called, its exceptions are caught), with at most one line (skipped), or
\* with an exception; then the next ID
FetchReply ==
    /\ wfnmpc = "fetch"
    /\ ~wcancel
    /\ \/ /\ ~imap_client.lost
          /\ \E h \in HandlerOutcomes :
               /\ raised' = IF h = "raise" THEN raised \cup {Head(wids)}
                                            ELSE raised
               /\ IF TryHandler(h) \in {"returned", "logged"}
                  THEN /\ handled' = Append(handled, Head(wids))
                       /\ WDrainNext(Tail(wids))
                       /\ UNCHANGED << searched, shortIds, wresult, wmsg >>
                  ELSE /\ WFail
                       /\ UNCHANGED imap_client
       \/ /\ shortIds' = shortIds \cup {Head(wids)}
          /\ WDrainNext(Tail(wids))
          /\ UNCHANGED << searched, handled, raised, wresult, wmsg >>
       \/ /\ WFail
          /\ raised' = {}
          /\ UNCHANGED imap_client
    /\ UNCHANGED << WatchFrameS, current_mailbox, wcancel, wlocked, idle_set,
                    switched, lossPath >>

\* line 189: the loop obtains the lock it queued for
LoopLockGranted ==
    /\ wfnmpc = "loop_lockwait"
    /\ ~wcancel
    /\ imap_client_lock.holder = "wfnm"
    /\ WIdleEntry(imap_client_lock, imap_client)
    /\ UNCHANGED << WatchFrameS, current_mailbox, wcancel, wresult, wids,
                    wmsg, wlocked, idle_set, searched, shortIds, handled,
                    raised, switched, lossPath >>

\* lines 201-204: idle_start returns the idle task (stored in _idle) and
\* the task waits for a push, or idle_start raises
IdleStartReply ==
    /\ wfnmpc = "idle_start"
    /\ ~wcancel
    /\ \/ /\ ~imap_client.lost
          /\ idle_set' = TRUE
          /\ wfnmpc' = "wait_push"
          /\ HistReset
          /\ UNCHANGED << imap_client, imap_client_lock, wresult, wids,
                          wmsg >>
       \/ /\ imap_client' = [imap_client EXCEPT !.idle = "no"]
          /\ WFail
          /\ UNCHANGED idle_set
    /\ raised' = {}
    /\ UNCHANGED << WatchFrameS, current_mailbox, wcancel, wlocked, switched,
                    lossPath >>

\* WAfterIdle with the EXISTS test of line 218 dropped: every wake-up
\* starts a drain
WAfterIdleAlways(msg, c) ==
    WSearch(imap_client_lock, c, TRUE)

\* lines 216-218 with the lock held: a push with EXISTS starts a drain
\* inside the lock, anything else ends the iteration
WAfterIdle(msg, c) ==
    IF msg = "exists"
    THEN WSearch(imap_client_lock, c, TRUE)
    ELSE /\ WLoop(Release(imap_client_lock), c)
         /\ UNCHANGED << wlocked, switched, lossPath >>

\* lines 204-214: wait_server_push returns the oldest queued message; a
\* pending idle is ended with idle_done and its task awaited
WaitPushReturn ==
    /\ wfnmpc = "wait_push"
    /\ ~wcancel
    /\ imap_client.queue # <<>>
    /\ IF has_pending_idle(imap_client)
       THEN /\ imap_client' = [imap_client EXCEPT !.queue = Tail(@),
                                                  !.idle = "ending"]
            /\ wmsg' = Head(imap_client.queue)
            /\ wfnmpc' = "idle_wait"
            /\ UNCHANGED << imap_client_lock, wlocked, switched, lossPath >>
       ELSE /\ WAfterIdle(Head(imap_client.queue),
                          [imap_client EXCEPT !.queue = Tail(@)])
            /\ UNCHANGED wmsg
    /\ HistReset
    /\ raised' = {}
    /\ UNCHANGED << WatchFrameS, current_mailbox, wcancel, wresult, wids,
                    idle_set >>

\* line 214: wait_for(self._idle, 10) returns, or raises (TimeoutError is
\* not caught here)
IdleDoneReply ==
    /\ wfnmpc = "idle_wait"
    /\ ~wcancel
    /\ \/ /\ ~imap_client.lost
          /\ WAfterIdle(wmsg, [imap_client EXCEPT !.idle = "no"])
          /\ wmsg' = "none"
          /\ UNCHANGED << wresult, wids, searched, shortIds, handled,
                          raised >>
       \/ /\ imap_client' = [imap_client EXCEPT !.idle = "no"]
          /\ WFail
          /\ raised' = {}
          /\ UNCHANGED << wlocked, switched, lossPath >>
    /\ UNCHANGED << WatchFrameS, current_mailbox, wcancel, idle_set >>

\* Task.cancel() takes effect at the task's next resumption: CancelledError
\* is raised at the await the task is suspended in and unwinds
\* wait_for_new_message, leaving the lock; a cancelled wait_for cancels the
\* idle task it waits for
WfnmCancelled ==
    /\ wcancel
    /\ wfnmpc \notin {"none", "ended"}
    /\ wfnmpc' = "ended"
    /\ wresult' = "cancelled"
    /\ wcancel' = FALSE
    /\ imap_client_lock' = Abandon(imap_client_lock, "wfnm")
    /\ imap_client' = IF wfnmpc = "idle_wait"
                      THEN [imap_client EXCEPT !.idle = "no"]
                      ELSE imap_client
    /\ wids' = <<>>
    /\ wmsg' = "none"
    /\ HistReset
    /\ raised' = {}
    /\ UNCHANGED << WatchFrameS, current_mailbox, wlocked, idle_set,
                    switched, lossPath >>

\* the server pushes an untagged response while IDLE is open, or the idle
\* timer set by idle_start queues its timeout marker
ServerPush ==
    /\ imap_client.idle # "no"
    /\ ~imap_client.lost
    /\ wfnmpc # "idle_start"
    /\ Len(imap_client.queue) < MaxQueue
    /\ \E kind \in PushKinds :
        /\ kind = "timeout" => imap_client.idle = "pending"
        /\ imap_client' = [imap_client EXCEPT !.queue = Append(@, kind)]
    /\ UNCHANGED << should_exit, exit_event, imap_client_lock, task_wfnm,
                    current_mailbox, cancelledIsException, runpc, wfnmpc,
                    wcancel, wresult, wids, wmsg, wlocked, idle_set, adminpc,
                    adminmb, recpc, adminResponse, histvars, stopNotice >>

\* ============================================================= handle_exit
\* lines 285-296: a call that finds should_exit clear sets it and cancels
\* the watch task; a call that finds it set does nothing
handle_exit ==
    /\ stopRequested' = TRUE
    /\ IF ~should_exit
       THEN /\ should_exit' = TRUE
            /\ IF task_wfnm = "task"
               THEN /\ wcancel' = (wfnmpc \notin {"none", "ended"})
                    /\ task_wfnm' = "none"
               ELSE UNCHANGED << wcancel, task_wfnm >>
       ELSE UNCHANGED << should_exit, wcancel, task_wfnm >>
    /\ UNCHANGED << exit_event, imap_client_lock, current_mailbox,
                    imap_client, cancelledIsException, runpc, wfnmpc,
                    wresult, wids, wmsg, wlocked, idle_set, adminpc, adminmb,
                    recpc, adminResponse, searched, shortIds, handled, raised, switched,
                    lossPath, buildFatal, selectFailed, replaced,
                    stopNotice >>

\* =============================================================== reconnect
\* the variables no step of reconnect writes
ReconnectFrame == << exit_event, current_mailbox, cancelledIsException,
                     runpc, wfnmpc, wresult, wids, wmsg, wlocked, idle_set,
                     adminpc, adminmb, adminResponse, stopRequested,
                     searched, shortIds,
                     handled, raised, switched, selectFailed, replaced,
                     stopNotice >>

\* a task can run without waiting for anything outside the process: a
\* timer of a second or more does not expire before such steps have run
ReadyStep ==
    \/ wcancel /\ wfnmpc \notin {"none", "ended"}
    \/ runpc = "await_wfnm" /\ wfnmpc = "ended"
    \/ runpc \in {"login_lockwait", "logout_lockwait"}
          /\ imap_client_lock.holder = "run"

\* lines 316-335 with the lock held (value l) and current handle c: one
\* attempt to construct the handle
RecBuild(l, c, out) ==
    /\ out = "ok" =>
          /\ imap_client' = NewClient
          /\ imap_client_lock' = Release(l)
          /\ recpc' = "none"
          /\ UNCHANGED << should_exit, buildFatal >>
    /\ out = "OSError" =>
          /\ imap_client' = c
          /\ imap_client_lock' = l
          /\ recpc' = "sleep5"
          /\ UNCHANGED << should_exit, buildFatal >>
    /\ out = "other" =>
          /\ imap_client' = c
          /\ should_exit' = TRUE
          /\ buildFatal' = TRUE
          /\ imap_client_lock' = Release(l)
          /\ recpc' = "none"

\* RecAfterCancel with the should_exit test of line 310 dropped
RecAfterCancelAlways(c) ==
    IF Acquire(imap_client_lock, "reconnect").holder = "reconnect"
    THEN \E out \in {"ok", "OSError", "other"} :
            RecBuild(Acquire(imap_client_lock, "reconnect"), c, out)
    ELSE /\ imap_client_lock' = Acquire(imap_client_lock, "reconnect")
         /\ recpc' = "lockwait"
         /\ imap_client' = c
         /\ UNCHANGED << should_exit, buildFatal >>

\* lines 310-314: unless should_exit is set, take the lock (and build) or
\* queue for it
RecAfterCancel(c) ==
    IF should_exit
    THEN /\ recpc' = "none"
         /\ imap_client' = c
         /\ UNCHANGED << imap_client_lock, should_exit, buildFatal >>
    ELSE IF Acquire(imap_client_lock, "reconnect").holder = "reconnect"
         THEN \E out \in {"ok", "OSError", "other"} :
                 RecBuild(Acquire(imap_client_lock, "reconnect"), c, out)
         ELSE /\ imap_client_lock' = Acquire(imap_client_lock, "reconnect")
              /\ recpc' = "lockwait"
              /\ imap_client' = c
              /\ UNCHANGED << should_exit, buildFatal >>

\* lines 43-45 and 298-314: the transport reports connection loss;
\* conn_lost_cb starts reconnect, which cancels the watch task and sleeps
\* a second, or goes for the lock at once when there is no watch task
conn_lost_cb ==
    /\ imap_client.state # "ABSENT"
    /\ ~imap_client.lost
    /\ recpc = "none"
    /\ lossPath' = (lossPath \/ (wfnmpc = "wait_push" /\ ~wcancel
                                   /\ task_wfnm = "task" /\ ~should_exit))
    /\ IF task_wfnm = "task"
       THEN /\ wcancel' = (wfnmpc \notin {"none", "ended"})
            /\ task_wfnm' = "none"
            /\ recpc' = "sleep1"
            /\ imap_client' = [imap_client EXCEPT !.lost = TRUE]
            /\ UNCHANGED << imap_client_lock, should_exit, buildFatal >>
       ELSE /\ RecAfterCancel([imap_client EXCEPT !.lost = TRUE])
            /\ UNCHANGED << wcancel, task_wfnm >>
    /\ UNCHANGED ReconnectFrame

\* line 308: the one second sleep is over
ReconnectSleepDone ==
    /\ recpc = "sleep1"
    /\ ~ReadyStep
    /\ RecAfterCancel(imap_client)
    /\ UNCHANGED << ReconnectFrame, wcancel, task_wfnm, lossPath >>

\* line 313: reconnect obtains the lock it queued for
ReconnectLockGranted ==
    /\ recpc = "lockwait"
    /\ imap_client_lock.holder = "reconnect"
    /\ \E out \in {"ok", "OSError", "other"} :
          RecBuild(imap_client_lock, imap_client, out)
    /\ UNCHANGED << ReconnectFrame, wcancel, task_wfnm, lossPath >>

\* line 330: the five second sleep is over, next attempt
ReconnectRetry ==
    /\ recpc = "sleep5"
    /\ \E out \in {"ok", "OSError", "other"} :
          RecBuild(imap_client_lock, imap_client, out)
    /\ UNCHANGED << ReconnectFrame, wcancel, task_wfnm, lossPath >>

\* ============================================ api.change_mailbox (admin)
\* the variables no step of the request handler writes
AdminFrame == << should_exit, exit_event, task_wfnm, cancelledIsException,
                 runpc, wfnmpc, wcancel, wresult, wids, wmsg, wlocked,
                 idle_set, recpc, stopRequested, searched, shortIds, handled,
                 raised, lossPath, buildFatal, selectFailed, stopNotice >>

\* api.py lines 75-93, receiver.py lines 121-141: a request that fails the
\* availability check is answered with the RuntimeError; otherwise
\* change_mailbox raises ValueError for an empty name, or quotes the name
\* and takes the lock and sends SELECT, or queues for the lock
AdminChangeMailbox ==
    /\ adminpc = "none"
    /\ \E mb \in AdminMailboxes :
        IF imap_client.state = "ABSENT" \/ exit_event \/ should_exit
        THEN /\ adminResponse' = ErrResponse("RuntimeError", "not available")
             /\ UNCHANGED << adminpc, adminmb, imap_client_lock >>
        ELSE IF ~ValidMailbox(mb)
        THEN /\ adminResponse' = ErrResponse("ValueError", "invalid input")
             /\ UNCHANGED << adminpc, adminmb, imap_client_lock >>
        ELSE /\ adminmb' = Quote(mb)
             /\ imap_client_lock' = Acquire(imap_client_lock, "admin")
             /\ adminpc' = IF Acquire(imap_client_lock, "admin").holder
                                = "admin"
                           THEN "select" ELSE "lockwait"
             /\ adminResponse' = NoResponse
    /\ UNCHANGED << AdminFrame, current_mailbox, imap_client, switched,
                    replaced >>

\* receiver.py lines 138-141: change_mailbox obtains the lock, sends SELECT
AdminLockGranted ==
    /\ adminpc = "lockwait"
    /\ imap_client_lock.holder = "admin"
    /\ adminpc' = "select"
    /\ UNCHANGED << AdminFrame, imap_client_lock, current_mailbox,
                    imap_client, adminmb, adminResponse, switched,
                    replaced >>

\* receiver.py lines 141-150, api.py 90-95: SELECT answered.  OK: the lock
\* is released and current_mailbox set.  Otherwise the lock is released and
\* the request fails.
AdminSelectReply ==
    /\ adminpc = "select"
    /\ adminpc' = "none"
    /\ adminmb' = <<>>
    /\ imap_client_lock' = Release(imap_client_lock)
    /\ \/ /\ ~imap_client.lost
          /\ imap_client.state \in {"AUTH", "SELECTED"}
          /\ imap_client' = [imap_client EXCEPT !.state = "SELECTED"]
          /\ current_mailbox' = adminmb
          /\ switched' = (wfnmpc = "loop_lockwait")
          /\ replaced' = NoMailbox
          /\ adminResponse' = OkResponse
       \/ /\ adminResponse' = ErrResponse("RuntimeError", "select failed")
          /\ UNCHANGED << imap_client, current_mailbox, switched, replaced >>
    /\ UNCHANGED AdminFrame

\* ==================================================================== Next
Next ==
    \/ RunStart
    \/ LoginLockGranted
    \/ HelloReply
    \/ LoginReply
    \/ RunAwaitDone
    \/ LogoutLockGranted
    \/ LogoutIdleReply
    \/ LogoutReply
    \/ WfnmStart
    \/ WfnmSelectLockGranted
    \/ WfnmSelectReply
    \/ SearchReply
    \/ FetchReply
    \/ LoopLockGranted
    \/ IdleStartReply
    \/ WaitPushReturn
    \/ IdleDoneReply
    \/ WfnmCancelled
    \/ ServerPush
    \/ handle_exit
    \/ conn_lost_cb
    \/ ReconnectSleepDone
    \/ ReconnectLockGranted
    \/ ReconnectRetry
    \/ AdminChangeMailbox
    \/ AdminLockGranted
    \/ AdminSelectReply

Spec == Init /\ [][Next]_vars

\* the scheduler runs every task that can run and the transport answers
\* every command; nothing obliges the environment to stop the receiver,
\* drop the connection, call the API or push to an open IDLE
Fairness ==
    /\ WF_vars(RunStart)
    /\ WF_vars(LoginLockGranted)
    /\ WF_vars(HelloReply)
    /\ WF_vars(LoginReply)
    /\ WF_vars(RunAwaitDone)
    /\ WF_vars(LogoutLockGranted)
    /\ WF_vars(LogoutIdleReply)
    /\ WF_vars(LogoutReply)
    /\ WF_vars(WfnmStart)
    /\ WF_vars(WfnmSelectLockGranted)
    /\ WF_vars(WfnmSelectReply)
    /\ WF_vars(SearchReply)
    /\ WF_vars(FetchReply)
    /\ WF_vars(LoopLockGranted)
    /\ WF_vars(IdleStartReply)
    /\ WF_vars(WaitPushReturn)
    /\ WF_vars(IdleDoneReply)
    /\ WF_vars(WfnmCancelled)
    /\ WF_vars(ReconnectSleepDone)
    /\ WF_vars(ReconnectLockGranted)
    /\ WF_vars(ReconnectRetry)
    /\ WF_vars(AdminLockGranted)
    /\ WF_vars(AdminSelectReply)

FairSpec == Spec /\ Fairness

\* idle_start arms the idle timeout: when it expires the marker
\* STOP_WAIT_SERVER_PUSH is put into idle_queue
IdleTimerFires ==
    /\ ServerPush
    /\ imap_client'.queue = Append(imap_client.queue, "timeout")

\* FairSpec with the idle timeout as a timer that expires
FairSpecTimers == Spec /\ Fairness /\ WF_vars(IdleTimerFires)

\* the same on a build where `except Exception` catches CancelledError
InitCaught == Init /\ cancelledIsException

FairSpecCaught == InitCaught /\ [][Next]_vars /\ Fairness

\* ================================================================== claims
\* the command each task has in flight on the transport, "none" if none
RunCmd ==
    CASE runpc = "login_cmd"  -> "login"
      [] runpc = "logout_cmd" -> "logout"
      [] OTHER                -> "none"

WatchCmd ==
    IF wfnmpc \in {"select", "search", "fetch", "idle_start"}
    THEN wfnmpc ELSE "none"

AdminCmd == IF adminpc = "select" THEN "select" ELSE "none"

\* the IDLE of the current handle is open and DONE has not been sent
IdleOutstanding == imap_client.idle = "pending"

\* C1: every idle_start is followed by an idle_done, sent before any other
\* command: while an IDLE is outstanding no login, select, search, fetch or
\* logout is in flight, and run does not end leaving an IDLE outstanding.
C1_IdleDoneFollowsIdleStart ==
    (IdleOutstanding /\ ~imap_client.lost) =>
        /\ RunCmd = "none"
        /\ AdminCmd = "none"
        /\ WatchCmd \in {"none", "idle_start"}
        /\ runpc \notin {"done", "dead"}

\* C2: no select, search or fetch is issued while an idle is pending, under
\* any interleaving of the watch task, change_mailbox, stops and losses.
C2_NoSelectSearchFetchWhileIdle ==
    ~(IdleOutstanding /\ ( \/ AdminCmd = "select"
                           \/ WatchCmd \in {"select", "search", "fetch"} ))

\* C3: a task that has a command in flight holds imap_client_lock, so at
\* most one command is in flight.
C3_CommandsUnderLock ==
    /\ RunCmd # "none" => imap_client_lock.holder = "run"
    /\ WatchCmd # "none" => imap_client_lock.holder = "wfnm"
    /\ AdminCmd # "none" => imap_client_lock.holder = "admin"

\* C4: after a stop request the loop eventually sets exit_event.
C4_StopLeadsToStopped == stopRequested ~> exit_event

\* the IDs of the drain whose fetch returned a message body, in search order
Fetched == SelectSeq(searched, LAMBDA i : i \notin shortIds)

\* C5 (as amended): when the session sends its first idle_start, the handler
\* has been invoked exactly once, in search order, for each ID the search
\* returned whose fetch returned a message body.
C5_DrainBeforeIdle ==
    (wfnmpc = "idle_start" /\ ~wlocked) => handled = Fetched

\* C5 witness: a first idle_start after a drain of two IDs, one without body
C5_Witness ==
    /\ wfnmpc = "idle_start"
    /\ ~wlocked
    /\ searched = <<1, 2>>
    /\ shortIds = {1}
    /\ handled = <<2>>

\* C5 as claimed: the handler has been invoked for every ID of the search.
C5_Original ==
    (wfnmpc = "idle_start" /\ ~wlocked) => handled = searched

\* C6: the shutdown state only moves forward: should_exit and exit_event are
\* never cleared and exit_event is set only with should_exit set.
C6_ShutdownMonotonic ==
    [][ /\ should_exit => should_exit'
        /\ exit_event => exit_event'
        /\ exit_event' => should_exit' ]_vars

\* C7: a stop request that follows an earlier one changes nothing.
C7_SecondStopIsNoOp ==
    [][ (stopRequested /\ handle_exit) => UNCHANGED progvars ]_vars

\* C8: after a connection loss mid-idle, with no stop request and no
\* non-recoverable construction error, the loop does not stop.
C8_LossDoesNotStop ==
    (lossPath /\ ~stopRequested /\ ~buildFatal) =>
        (~exit_event /\ runpc \notin {"done", "dead"})

\* C9: a switch request waiting for the lock while the watch task idles,
\* with no stop requested, gets to send its select without a push or idle
\* timeout.
C9_SwitchEndsIdle ==
    (adminpc = "lockwait" /\ wfnmpc = "wait_push" /\ ~wcancel
        /\ ~stopRequested)
        ~> (adminpc = "select")

\* C10: after a successful admin switch the watch task searches before it
\* next waits in idle.
C10_DrainAfterSwitch ==
    ~(switched /\ wfnmpc \in {"idle_start", "wait_push"})

\* C11: a handler call that raises leaves the loop where a call that returns
\* leaves it: the ID counts as handled, the drain goes on to the next ID (or
\* to the idle loop), the task does not end, and should_exit, the mailbox
\* and the pending idle are untouched.
C11_HandlerErrorIsolated ==
    [][ (FetchReply /\ raised' # raised /\ raised' # {}) =>
          /\ handled' = Append(handled, Head(wids))
          /\ WDrainNext(Tail(wids))
          /\ wfnmpc' # "ended"
          /\ UNCHANGED << should_exit, current_mailbox, wresult, searched,
                          shortIds >> ]_vars

\* C11 witness: the handler raised for the first of two IDs, both were
\* handled and the loop has gone on to idle
C11_Witness ==
    /\ wfnmpc = "idle_start"
    /\ searched = <<1, 2>>
    /\ raised = {1}
    /\ handled = <<1, 2>>
    /\ ~should_exit

\* a step in which a login attempt fails: the greeting wait or the LOGIN
\* command ends without the session logged in
LoginFailed ==
    \/ HelloReply /\ runpc' # "login_cmd"
    \/ LoginReply /\ runpc' # "await_wfnm"

\* C12: a failed login is followed by another login attempt with no watch
\* task created in between, unless a stop was requested: then no further
\* attempt is made and exit_event is set.
C12_LoginFailureRetriesOrStops ==
    [][ LoginFailed =>
          /\ stopRequested => (exit_event' /\ runpc' = "done")
          /\ (~stopRequested /\ ~should_exit) =>
                /\ runpc' \in {"login_hello", "login_lockwait"}
                /\ ~exit_event'
                /\ UNCHANGED << wfnmpc, task_wfnm >> ]_vars

\* C13: a refused select of the watch task, with no stop requested and no
\* fatal reconnect error, does not take the loop to Stopped: should_exit
\* stays clear and run goes on to logout and another login.
C13_SelectFailureReconnects ==
    (selectFailed /\ ~stopRequested /\ ~buildFatal) =>
        (~should_exit /\ ~exit_event)

\* the message the wake-up in progress delivered
PushMsg ==
    IF wfnmpc = "idle_wait" THEN wmsg
    ELSE IF imap_client.queue # <<>> THEN Head(imap_client.queue)
    ELSE "none"

\* the step of a wake-up in which the idle has been ended and the loop
\* decides between a drain and the next iteration
WakeStep ==
    /\ \/ WaitPushReturn /\ wfnmpc' # "idle_wait"
       \/ IdleDoneReply
    /\ wfnmpc' # "ended"

\* after a wake-up a search is sent exactly if the push held EXISTS, with
\* the idle ended; otherwise the loop goes back to idling
SearchIffExists ==
    WakeStep =>
        /\ (wfnmpc' = "search") <=> (PushMsg = "exists")
        /\ wfnmpc' = "search" => imap_client'.idle = "no"
        /\ wfnmpc' # "search" =>
              /\ wfnmpc' \in {"idle_start", "wait_push", "loop_lockwait"}
              /\ handled' = <<>>

\* a drain of the idle loop is over and the loop is back at idling
LockedDrainDone ==
    wlocked /\ wfnmpc \in {"idle_start", "wait_push", "loop_lockwait"}

DrainCmdIssued ==
    /\ wfnmpc' \in {"search", "fetch"}
    /\ << wfnmpc', wids' >> # << wfnmpc, wids >>

\* a step in which the handler is invoked with a message
HandlerInvoked == Len(handled') > Len(handled)

\* C15: once a stop request has set should_exit, no search or fetch is sent
\* and the handler is not invoked with a message any more.
C15_NoHandlingAfterStop ==
    [][ (stopRequested /\ should_exit) =>
            (~DrainCmdIssued /\ ~HandlerInvoked) ]_vars

\* what a step may do once exit_event is set: run stays ended, no watch
\* task appears, and a connection-loss callback (with the reconnect task it
\* starts) neither asks for the lock nor replaces the handle
StoppedStep ==
    /\ runpc' = "done"
    /\ wfnmpc' = "none"
    /\ exit_event'
    /\ conn_lost_cb =>
          /\ recpc' \in {"none", "sleep1"}
          /\ imap_client' = [imap_client EXCEPT !.lost = TRUE]
          /\ UNCHANGED imap_client_lock
    /\ ReconnectSleepDone =>
          /\ recpc' = "none"
          /\ UNCHANGED << imap_client, imap_client_lock >>

\* C16: Stopped is terminal: with exit_event set run has ended and no watch
\* task exists, and it stays so; a later connection-loss callback does not
\* rebuild the handle.
C16_StoppedIsTerminal ==
    /\ [](exit_event => (runpc = "done" /\ wfnmpc = "none" /\ should_exit))
    /\ [][exit_event => StoppedStep]_vars

\* C16 witness: the loop stopped after a completed logout and the connection
\* was lost afterwards; no reconnect is in progress and the handle is the
\* one that logged out
C16_Witness ==
    /\ exit_event
    /\ imap_client.state = "LOGOUT"
    /\ imap_client.lost
    /\ recpc = "none"

\* a step in which logout's wait for the idle task or its LOGOUT command
\* ends, well or badly
LogoutEnds == LogoutIdleReply \/ LogoutReply

\* C17: no outcome of logout sets should_exit: the loop goes on as the
\* value should_exit had before the logout says.
C17_LogoutBestEffort ==
    [][ LogoutEnds =>
          /\ should_exit' = should_exit
          /\ ~should_exit => runpc' # "done" ]_vars

\* C18: whenever run has stopped executing, exit_event is set, so that the
\* status query answers "not running".
C18_StatusReflectsStopped ==
    runpc \in {"done", "dead"} => exit_event

\* a step of run in which a login attempt begins: login holds the lock and
\* waits for the greeting on the current handle
LoginAttemptStarts ==
    /\ \/ RunStart
       \/ LoginLockGranted
       \/ HelloReply
       \/ LoginReply
       \/ RunAwaitDone
       \/ LogoutLockGranted
       \/ LogoutIdleReply
       \/ LogoutReply
    /\ runpc' = "login_hello"

\* C19: no login attempt begins on a handle whose connection was lost.
C19_NoLoginOnLostHandle ==
    [][ LoginAttemptStarts => ~imap_client'.lost ]_vars

\* a step in which a /change-mailbox request is answered with an error
AdminFailed ==
    /\ AdminChangeMailbox \/ AdminSelectReply
    /\ adminResponse'.status \in {422, 500}

\* what a failed request leaves behind: the mailbox, the stop flag and the
\* tasks of the loop as they were, the lock neither held nor awaited by the
\* request; a request refused before the lock sends nothing at all
FailedChangeKeepsSession ==
    AdminFailed =>
        /\ UNCHANGED << current_mailbox, should_exit, exit_event, runpc,
                        wfnmpc, wcancel, task_wfnm >>
        /\ adminpc' = "none"
        /\ imap_client_lock'.holder # "admin"
        /\ \A i \in 1..Len(imap_client_lock'.waiters) :
              imap_client_lock'.waiters[i] # "admin"
        /\ AdminChangeMailbox => UNCHANGED << imap_client_lock, imap_client >>
        /\ adminResponse'.status = 422 => AdminChangeMailbox

WatchEndSeen ==
    /\ runpc = "await_wfnm"
    /\ wfnmpc = "ended"
    /\ wfnmpc' = "none"

\* lines 240-257: logout holds or awaits the lock for the session that ended
LogoutIssued == runpc \in {"logout_lockwait", "logout_idle_wait", "logout_cmd"}

\* C21: whenever run resumes after the end of a watch task (cancelled or
\* failed), the handler is invoked with RECEIVER_STOPPED exactly once for
\* that task, run goes on to logout whatever the handler does, and logout
\* is never under way without that invocation.
C21_StoppedNoticeOnEveryEnd ==
    /\ [][WatchEndSeen =>
            /\ stopNotice = "none"
            /\ stopNotice' = RECEIVER_STOPPED
            /\ runpc' # "dead"]_vars
    /\ [](LogoutIssued => stopNotice = RECEIVER_STOPPED)

\* lines 141-148 in the watch task: its select is answered OK
LoopSelected ==
    /\ wfnmpc = "select"
    /\ wfnmpc' = "search"

\* C22: every select of the loop, the first one and the one after a
\* reconnect or retry alike, selects the mailbox name passed to run and
\* records it in current_mailbox, whatever an administrative change_mailbox
\* had put there before.
C22_LoopSelectsRunMailbox ==
    [][LoopSelected => current_mailbox' = Quote(INBOX)]_vars

\* C22 witness: the watch task of a later session (an earlier one has
\* idled) is in its first drain, having selected the mailbox of run over
\* the name an administrative switch had recorded
C22_Witness ==
    /\ replaced = Quote(<<"M", " ", "B">>)
    /\ current_mailbox = Quote(INBOX)
    /\ idle_set
    /\ wfnmpc = "search"
    /\ ~wlocked

\* the tasks that use imap_client_lock: run (login, logout), the watch
\* task (change_mailbox, the idle loop), /change-mailbox and reconnect
LockUsers == {"run", "wfnm", "admin", "reconnect"}

\* t has called acquire and is queued
LockWaiting(t) ==
    \E i \in 1..Len(imap_client_lock.waiters) : imap_client_lock.waiters[i] = t

\* t is between the acquire and the end of an `async with` block
InsideWith(t) ==
    \/ t = "run" /\ runpc \in {"login_lockwait", "login_hello", "login_cmd",
                               "logout_lockwait", "logout_idle_wait",
                               "logout_cmd"}
    \/ t = "wfnm" /\ wfnmpc \in {"select_lockwait", "select", "loop_lockwait",
                                 "idle_start", "wait_push", "idle_wait"}
    \/ t = "wfnm" /\ wfnmpc \in {"search", "fetch"} /\ wlocked
    \/ t = "admin" /\ adminpc \in {"lockwait", "select"}
    \/ t = "reconnect" /\ recpc \in {"lockwait", "sleep5"}

\* the lock is held only inside an `async with` block, nobody queues for it
\* twice or while holding it, and nobody queues while it is free
LockSane ==
    /\ \A t \in LockUsers :
          /\ imap_client_lock.holder = t => InsideWith(t) /\ ~LockWaiting(t)
          /\ LockWaiting(t) => InsideWith(t)
    /\ \A i, j \in 1..Len(imap_client_lock.waiters) :
          imap_client_lock.waiters[i] = imap_client_lock.waiters[j] => i = j
    /\ imap_client_lock.holder \in LockUsers \cup {"none"}
    /\ imap_client_lock.holder = "none" => imap_client_lock.waiters = <<>>

\* t owns the lock, or t is the watch task and was cancelled in the queue
LockWaitOver(t) ==
    \/ imap_client_lock.holder = t
    \/ t = "wfnm" /\ wfnmpc \in {"ended", "none"}

\* a step by which t leaves the queue of the lock gives it the lock, or
\* ends the cancelled watch task
LeavesQueueServed(t) ==
    (LockWaiting(t) /\ ~LockWaiting(t)') => LockWaitOver(t)'

\* C23: imap_client_lock is never acquired by a task that holds it or
\* already waits for it, it is held only inside an `async with` block (so a
\* holder that finishes, raises or is cancelled has released it), and no
\* task waits for it forever: each waiter leaves the queue, and it leaves
\* it owning the lock (or cancelled, for the watch task), when commands are
\* answered, timers expire and construction of the transport eventually
\* stops raising OSError.
C23_LockNeverDeadlocks ==
    /\ [](LockSane)
    /\ [][\A t \in LockUsers : LeavesQueueServed(t)]_vars
    /\ \A t \in LockUsers : []<>(~LockWaiting(t))

\* C23 witness: the request waited for the lock while the watch task idled
\* with it, and owns it now that the watch task has left its block
C23_Witness ==
    /\ imap_client_lock.holder = "admin"
    /\ adminpc = "lockwait"
    /\ LockWaiting("wfnm")
    /\ wfnmpc = "loop_lockwait"

====
